---- MODULE Spec2Model ----
(***************************************************************************)
(* Model of BufferRenderer (src/view/buffer_renderer.rs): one render()     *)
(* pass over a document's token stream, recording every print_char and     *)
(* set_cursor call made on the terminal.                                   *)
(*                                                                         *)
(* Every record of `draws' carries the arguments of one print_char call    *)
(* (col, row, style, fg, bg, ch) plus two history fields that are not      *)
(* arguments: `site', the call site, and `bpos', the value of              *)
(* buffer_position when the call was made.                                 *)
(***************************************************************************)
EXTENDS Integers, Sequences, FiniteSets

(* ------------------------------ bounds -------------------------------- *)
MaxTokens == 3
MaxScroll == 2
MinWidth  == 6
MaxWidth  == 8
MinHeight == 2
MaxHeight == 4
\* The same documents are also rendered below PadLines blank lines (a
\* two-digit line count, hence a wider gutter) on a terminal TallHeight
\* high, unscrolled and without a highlight.
PadLines   == 9
TallHeight == 12
\* A scroll offset far past the end of the document, whose line number has
\* more digits than the document's line count.
FarScroll  == 99

(* ------------------------- program constants -------------------------- *)
LINE_LENGTH_GUIDE_OFFSET == 80
LINE_WRAPPING == TRUE
TAB_WIDTH == 4

(* ------------------------------ values -------------------------------- *)
TAB == "\t"
AltBackground == "Alt"
NoScope == "none"
NoRange == [set |-> FALSE, start |-> [line |-> 0, offset |-> 0],
            end |-> [line |-> 0, offset |-> 0]]

Pos(l, o) == [line |-> l, offset |-> o]

\* Position derives PartialOrd: ordered by line, then offset.
PosLess(p, q) == \/ p.line < q.line
                 \/ p.line = q.line /\ p.offset < q.offset

\* Range::includes, half open.
Includes(r, p) == ~PosLess(p, r.start) /\ PosLess(p, r.end)

\* color::map, a total function from scope name to colour.
ColorMap(scope) == IF scope = "keyword" THEN "Magenta"
                   ELSE IF scope = "comment" THEN "Blue" ELSE "Default"

(* ------------------------- the token stream --------------------------- *)
NewlineToken == [type |-> "Newline", position |-> Pos(0, 0),
                 value |-> << >>, scope |-> NoScope]

LexemeToken(p, v, s) == [type |-> "Lexeme", position |-> p,
                         value |-> v, scope |-> s]

\* The shapes a token of the bounded documents can take.
Shapes == { [nl |-> TRUE,  value |-> << >>,       scope |-> NoScope],
            [nl |-> FALSE, value |-> <<"a", "b">>, scope |-> "keyword"],
            [nl |-> FALSE, value |-> <<TAB>>,      scope |-> NoScope] }

ShapeSeqs == UNION { [1..n -> Shapes] : n \in 0..MaxTokens }

BlankLines(n) == [i \in 1..n |-> [nl |-> TRUE, value |-> << >>, scope |-> NoScope]]

\* The position reached after the tokens of shapes 1..n: tokens are in
\* document order and cover the document exactly once.
RECURSIVE PosAfter(_, _)
PosAfter(shapes, n) ==
    IF n = 0 THEN Pos(0, 0)
    ELSE LET p == PosAfter(shapes, n - 1)
         IN  IF shapes[n].nl THEN Pos(p.line + 1, 0)
             ELSE Pos(p.line, p.offset + Len(shapes[n].value))

BuildTokens(shapes) ==
    [i \in 1..Len(shapes) |->
        IF shapes[i].nl THEN NewlineToken
        ELSE LexemeToken(PosAfter(shapes, i - 1), shapes[i].value,
                         shapes[i].scope)]

NewlineCount(toks) == Cardinality({i \in 1..Len(toks) : toks[i].type = "Newline"})

\* buffer.line_count()
LineCount(toks) == NewlineCount(toks) + 1

\* Every position of the document a cursor can be at.
DocPositions(shapes) ==
    {Pos(0, 0)} \cup
    UNION { IF shapes[i].nl THEN {PosAfter(shapes, i)}
            ELSE { Pos(PosAfter(shapes, i - 1).line,
                       PosAfter(shapes, i - 1).offset + k) :
                       k \in 0..Len(shapes[i].value) }
            : i \in 1..Len(shapes) }

Lex(v, s) == [nl |-> FALSE, value |-> v, scope |-> s]

Tabs(n) == [i \in 1..n |-> TAB]

\* The tabs that reach the length guide column.
GuideTabs == LINE_LENGTH_GUIDE_OFFSET \div TAB_WIDTH

\* A terminal wide enough to show the length guide column.
WideWidth == LINE_LENGTH_GUIDE_OFFSET + 10

\* Three more families of frames:
\*  - a short document scrolled to FarScroll;
\*  - a line whose first lexeme, GuideTabs tabs and "ab", reaches past the
\*    length guide column, followed by a second lexeme and a line break, on
\*    a terminal WideWidth wide, the cursor on the second line;
\*  - a line of two lexemes that soft wraps on the narrowest terminal,
\*    followed by a second line.
SpecialFrames ==
    { [body |-> b, cursor |-> Pos(0, 0), scroll_offset |-> FarScroll,
       width |-> MinWidth, height |-> MinHeight] :
          b \in { << >>, << Lex(<<"a", "b">>, "keyword") >> } }
    \cup
    { [body |-> << Lex(Tabs(GuideTabs) \o <<"a", "b">>, NoScope),
                  Lex(<<"a", "b">>, "keyword"),
                  BlankLines(1)[1] >>,
       cursor |-> Pos(1, 0), scroll_offset |-> 0,
       width |-> WideWidth, height |-> MaxHeight] }
    \cup
    { [body |-> << Lex(<<"a", "b">>, "keyword"), Lex(<<"a", "b">>, "keyword"),
                  BlankLines(1)[1], Lex(<<"a", "b">>, "keyword") >>,
       cursor |-> c, scroll_offset |-> 0,
       width |-> MinWidth, height |-> MaxHeight] :
          c \in { Pos(0, 0), Pos(0, 2) } }

Highlights == { NoRange,
                [set |-> TRUE, start |-> Pos(0, 1), end |-> Pos(1, 1)] }

(* ------------------------------ state --------------------------------- *)
VARIABLES tokens, tokenized, cursor, scroll_offset, highlight,
          width, height,
          buffer_position, screen_position, cursor_visible,
          pc, ti, ci, draws, cursor_calls

inputs == <<tokens, tokenized, cursor, scroll_offset, highlight, width, height>>
vars == <<tokens, tokenized, cursor, scroll_offset, highlight, width, height,
          buffer_position, screen_position, cursor_visible,
          pc, ti, ci, draws, cursor_calls>>

(* --------------------------- BufferRenderer --------------------------- *)
DigitChar(d) == <<"0", "1", "2", "3", "4", "5", "6", "7", "8", "9">>[d + 1]

\* usize::to_string
RECURSIVE to_string(_)
to_string(n) == IF n < 10 THEN <<DigitChar(n)>>
               ELSE to_string(n \div 10) \o <<DigitChar(n % 10)>>

Spaces(n) == [i \in 1..n |-> " "]

line_number_width == Len(to_string(LineCount(tokens))) + 1
gutter_width == line_number_width + 2

\* format!("{:>width$}  ", line_number, width = width)
FormatLineNumber(line_number, w) ==
    LET s == to_string(line_number)
    IN  (IF Len(s) < w THEN Spaces(w - Len(s)) ELSE << >>) \o s \o <<" ", " ">>

Draw(col, row, style, fg, bg, ch, site, bpos) ==
    [col |-> col, row |-> row, style |-> style, fg |-> fg, bg |-> bg,
     ch |-> ch, site |-> site, bpos |-> bpos]

\* The print_char calls of draw_line_number, in order.
DrawLineNumberCalls(line, line_number, cursor_line, w, bpos) ==
    LET s == FormatLineNumber(line_number, w)
    IN  [i \in 1..Len(s) |->
            Draw(i - 1, line,
                 IF cursor_line THEN "RB_BOLD" ELSE "RB_NORMAL",
                 "Default",
                 IF (i - 1) > w /\ ~cursor_line THEN "Default" ELSE AltBackground,
                 s[i], "line_number", bpos)]

\* The value draw_line_number returns.
draw_line_number(line, line_number, cursor_line, w) ==
    Len(FormatLineNumber(line_number, w))

on_cursor_line(bp) == bp.line = cursor.line

length_guide_offset == gutter_width + LINE_LENGTH_GUIDE_OFFSET

\* The print_char calls of print_line_highlight.
print_line_highlight(bp, sp) ==
    IF on_cursor_line(bp) /\ sp.offset < width
    THEN [i \in 1..(width - sp.offset) |->
             Draw(sp.offset + i - 1, sp.line, "RB_NORMAL", "Default",
                  AltBackground, " ", "line_highlight", bp)]
    ELSE << >>

\* The print_char calls of print_length_guide.
print_length_guide(bp, sp) ==
    IF ~on_cursor_line(bp) /\ sp.offset <= length_guide_offset
    THEN << Draw(length_guide_offset, sp.line, "RB_NORMAL", "Default",
                 AltBackground, " ", "length_guide", bp) >>
    ELSE << >>

\* set_cursor(): the terminal.set_cursor calls it makes at (bp, sp).
set_cursor_calls(bp, sp) ==
    IF cursor = bp THEN << [some |-> TRUE, pos |-> sp] >> ELSE << >>

\* current_char_style keeping the token colour inside the highlight.
current_char_style_keeps_color(bp, token_color) ==
    IF highlight.set /\ Includes(highlight, bp)
    THEN <<"RB_REVERSE", token_color>>
    ELSE <<"RB_NORMAL", token_color>>

current_char_style(bp, token_color) ==
    IF highlight.set
    THEN IF Includes(highlight, bp)
         THEN <<"RB_REVERSE", "Default">>
         ELSE <<"RB_NORMAL", token_color>>
    ELSE <<"RB_NORMAL", token_color>>

background_color(bp) ==
    IF on_cursor_line(bp) THEN AltBackground ELSE "Default"

next_tab_stop(offset) == (offset \div TAB_WIDTH + 1) * TAB_WIDTH

before_visible_content(bp) == bp.line < scroll_offset

\* A renderer that never finds the end of the visible content.
after_visible_content_never(sp) == FALSE

after_visible_content(sp) == sp.line >= height - 1

\* The characters print_lexeme iterates over without `continue'.
LexemeChars(value) == SelectSeq(value, LAMBDA c : c # "\n")

TokenColor(lexeme) ==
    IF lexeme.scope # NoScope THEN ColorMap(lexeme.scope) ELSE "Default"

\* Where the token loop goes after token i is done with.
AfterToken(i) == IF i < Len(tokens) THEN "tokens" ELSE "after_loop"

\* The lexeme's screen position without the gutter.
lexeme_screen_position_no_gutter(p) == Pos(p.line, p.offset)

\* update_positions, Lexeme arm: the screen position of a lexeme.
lexeme_screen_position(p) == Pos(p.line, p.offset + gutter_width)

\* Entering the token loop without looking at buffer.tokens().
after_first_line_number_untokenized ==
    IF Len(tokens) = 0 THEN "after_loop" ELSE "tokens"

\* render(), line 189: where render() goes after the first line number.
after_first_line_number ==
    IF ~tokenized THEN "finish"
    ELSE IF Len(tokens) = 0 THEN "after_loop" ELSE "tokens"

\* Clearing the cursor whether or not it was rendered.
clear_cursor_calls_always(visible) ==
    << [some |-> FALSE, pos |-> Pos(0, 0)] >>

\* render(), lines 215-217: the set_cursor(None) call, if any.
clear_cursor_calls(visible) ==
    IF ~visible THEN << [some |-> FALSE, pos |-> Pos(0, 0)] >> ELSE << >>

\* A soft wrap that restarts at column 0 instead of the gutter.
wrap_char_column_zero(bp, sp, st, ch) ==
    [bp |-> Pos(bp.line, bp.offset + 1),
     sp |-> Pos(sp.line + 1, 1),
     painted |-> << Draw(0, sp.line + 1, st[1], st[2],
                         background_color(bp), ch, "wrap", bp) >>]

\* print_lexeme, lines 148-152: positions and print_char call of the soft
\* wrap branch for character ch, styled st, at (bp, sp).
wrap_char(bp, sp, st, ch) ==
    [bp |-> Pos(bp.line, bp.offset + 1),
     sp |-> Pos(sp.line + 1, gutter_width + 1),
     painted |-> << Draw(gutter_width, sp.line + 1, st[1], st[2],
                         background_color(bp), ch, "wrap", bp) >>]

\* A tab that advances the buffer offset by the cells it painted.
tab_char_advances_by_cells(bp, sp, st) ==
    LET screen_tab_stop == next_tab_stop(sp.offset - gutter_width) + gutter_width
    IN  [bp |-> Pos(bp.line, bp.offset + (screen_tab_stop - sp.offset)),
         sp |-> Pos(sp.line, screen_tab_stop),
         painted |-> [i \in 1..(screen_tab_stop - sp.offset) |->
                         Draw(sp.offset + i - 1, sp.line, st[1], st[2],
                              AltBackground, " ", "tab", bp)]]

\* print_lexeme, lines 157-165: positions and print_char calls of the tab
\* branch.
tab_char(bp, sp, st) ==
    LET buffer_tab_stop == next_tab_stop(sp.offset - gutter_width)
        screen_tab_stop == buffer_tab_stop + gutter_width
    IN  [bp |-> Pos(bp.line, bp.offset + 1),
         sp |-> Pos(sp.line, screen_tab_stop),
         painted |-> [i \in 1..(screen_tab_stop - sp.offset) |->
                         Draw(sp.offset + i - 1, sp.line, st[1], st[2],
                              AltBackground, " ", "tab", bp)]]

\* print_lexeme, lines 167-169: positions and print_char call of an
\* ordinary character.
ordinary_char(bp, sp, st, ch) ==
    [bp |-> Pos(bp.line, bp.offset + 1),
     sp |-> Pos(sp.line, sp.offset + 1),
     painted |-> << Draw(sp.offset, sp.line, st[1], st[2],
                         background_color(bp), ch, "char", bp) >>]

(* ------------------------------ Init ---------------------------------- *)
Init ==
    /\ \/ \E body \in ShapeSeqs :
             /\ \/ /\ tokens = BuildTokens(body)
                   /\ cursor \in DocPositions(body)
                   /\ tokenized \in BOOLEAN
                   /\ scroll_offset \in 0..MaxScroll
                   /\ highlight \in Highlights
                   /\ height \in MinHeight..MaxHeight
                \/ /\ tokens = BuildTokens(BlankLines(PadLines) \o body)
                   /\ cursor \in { p \in DocPositions(BlankLines(PadLines) \o body) :
                                      p.line >= PadLines }
                   /\ tokenized = TRUE
                   /\ scroll_offset = 0
                   /\ highlight = NoRange
                   /\ height = TallHeight
             /\ width \in MinWidth..MaxWidth
       \/ \E f \in SpecialFrames :
             /\ tokens = BuildTokens(f.body)
             /\ cursor = f.cursor
             /\ tokenized = TRUE
             /\ scroll_offset = f.scroll_offset
             /\ highlight = NoRange
             /\ width = f.width
             /\ height = f.height
    /\ buffer_position = Pos(0, 0)
    /\ screen_position = Pos(0, 0)
    /\ cursor_visible = FALSE
    /\ pc = "render"
    /\ ti = 0
    /\ ci = 0
    /\ draws = << >>
    /\ cursor_calls = << >>

(* ----------------------------- actions -------------------------------- *)
\* render(), line 187: the first line number.
RenderStart ==
    /\ pc = "render"
    /\ draws' = draws \o DrawLineNumberCalls(0, scroll_offset + 1,
                            cursor.line = scroll_offset, line_number_width,
                            buffer_position)
    /\ screen_position' = [screen_position EXCEPT !.offset =
                            draw_line_number(0, scroll_offset + 1,
                                cursor.line = scroll_offset, line_number_width)]
    /\ pc' = after_first_line_number
    /\ ti' = 1
    /\ UNCHANGED <<inputs, buffer_position, cursor_visible, ci, cursor_calls>>

\* One iteration of the token loop on a Newline token.
TokenNewline ==
    /\ pc = "tokens"
    /\ tokens[ti].type = "Newline"
    /\ LET bp == Pos(buffer_position.line + 1, 0)
           row == screen_position.line + 1
           sp == Pos(row, draw_line_number(row, bp.line + 1,
                                bp.line = cursor.line, line_number_width))
           sc == set_cursor_calls(bp, sp)
       IN  /\ draws' = draws
                         \o print_line_highlight(buffer_position, screen_position)
                         \o print_length_guide(buffer_position, screen_position)
                         \o DrawLineNumberCalls(row, bp.line + 1,
                                bp.line = cursor.line, line_number_width, bp)
           /\ buffer_position' = bp
           /\ screen_position' = sp
           /\ cursor_calls' = cursor_calls \o sc
           /\ cursor_visible' = (cursor_visible \/ sc # << >>)
           /\ IF before_visible_content(bp)
              THEN pc' = AfterToken(ti) /\ ti' = ti + 1
              ELSE IF after_visible_content(sp)
              THEN pc' = "after_loop" /\ ti' = ti
              ELSE pc' = AfterToken(ti) /\ ti' = ti + 1
    /\ UNCHANGED <<inputs, ci>>

\* One iteration of the token loop on a Lexeme token, up to the call of
\* print_lexeme.
TokenLexeme ==
    /\ pc = "tokens"
    /\ tokens[ti].type = "Lexeme"
    /\ LET bp == tokens[ti].position
           sp == lexeme_screen_position(tokens[ti].position)
           sc == set_cursor_calls(bp, sp)
       IN  /\ buffer_position' = bp
           /\ screen_position' = sp
           /\ cursor_calls' = cursor_calls \o sc
           /\ cursor_visible' = (cursor_visible \/ sc # << >>)
           /\ IF before_visible_content(bp)
              THEN pc' = AfterToken(ti) /\ ti' = ti + 1 /\ ci' = ci
              ELSE IF after_visible_content(sp)
              THEN pc' = "after_loop" /\ ti' = ti /\ ci' = ci
              ELSE IF Len(LexemeChars(tokens[ti].value)) = 0
              THEN pc' = AfterToken(ti) /\ ti' = ti + 1 /\ ci' = ci
              ELSE pc' = "chars" /\ ti' = ti /\ ci' = 1
    /\ UNCHANGED <<inputs, draws>>

CurrentChar == LexemeChars(tokens[ti].value)[ci]

CurrentStyle == current_char_style(buffer_position, TokenColor(tokens[ti]))

WrapDue == LINE_WRAPPING /\ screen_position.offset = width

\* One iteration of print_lexeme's character loop: the set_cursor before
\* the branch, the branch's result r, the set_cursor after it.
CharStep(r) ==
    LET before == set_cursor_calls(buffer_position, screen_position)
        after == set_cursor_calls(r.bp, r.sp)
    IN  /\ buffer_position' = r.bp
        /\ screen_position' = r.sp
        /\ draws' = draws \o r.painted
        /\ cursor_calls' = cursor_calls \o before \o after
        /\ cursor_visible' = (cursor_visible \/ before # << >> \/ after # << >>)
        /\ IF ci < Len(LexemeChars(tokens[ti].value))
           THEN pc' = "chars" /\ ci' = ci + 1 /\ ti' = ti
           ELSE pc' = AfterToken(ti) /\ ci' = ci /\ ti' = ti + 1
        /\ UNCHANGED inputs

\* print_lexeme on a character that soft wraps.
PrintWrap ==
    /\ pc = "chars"
    /\ WrapDue
    /\ CharStep(wrap_char(buffer_position, screen_position, CurrentStyle,
                          CurrentChar))

\* print_lexeme on a tab.
PrintTab ==
    /\ pc = "chars"
    /\ ~WrapDue
    /\ CurrentChar = TAB
    /\ CharStep(tab_char(buffer_position, screen_position, CurrentStyle))

\* print_lexeme on an ordinary character.
PrintOrdinary ==
    /\ pc = "chars"
    /\ ~WrapDue
    /\ CurrentChar # TAB
    /\ CharStep(ordinary_char(buffer_position, screen_position, CurrentStyle,
                              CurrentChar))

\* render(), line 210: the set_cursor after the token loop.
AfterLoop ==
    /\ pc = "after_loop"
    /\ LET sc == set_cursor_calls(buffer_position, screen_position)
       IN  /\ cursor_calls' = cursor_calls \o sc
           /\ cursor_visible' = (cursor_visible \/ sc # << >>)
    /\ pc' = "finish"
    /\ UNCHANGED <<inputs, buffer_position, screen_position, ti, ci, draws>>

\* render(), lines 215-221: set_cursor(None) and the last decorations.
Finish ==
    /\ pc = "finish"
    /\ cursor_calls' = cursor_calls \o clear_cursor_calls(cursor_visible)
    /\ draws' = draws \o print_line_highlight(buffer_position, screen_position)
                      \o print_length_guide(buffer_position, screen_position)
    /\ pc' = "done"
    /\ UNCHANGED <<inputs, buffer_position, screen_position, cursor_visible, ti, ci>>

Next == \/ RenderStart
        \/ TokenNewline
        \/ TokenLexeme
        \/ PrintWrap
        \/ PrintTab
        \/ PrintOrdinary
        \/ AfterLoop
        \/ Finish

Spec == Init /\ [][Next]_vars

\* render() is synchronous and single threaded: it keeps taking steps until
\* it returns.
FairSpec == Spec /\ WF_vars(Next)

(* ------------------------------ claims -------------------------------- *)
Done == pc = "done"

ContentSites == {"char", "tab", "wrap"}

NoneCall == [some |-> FALSE, pos |-> Pos(0, 0)]

\* The lexeme token that holds document position p.
TokenAt(p) ==
    CHOOSE t \in {tokens[i] : i \in DOMAIN tokens} :
        /\ t.type = "Lexeme"
        /\ t.position.line = p.line
        /\ t.position.offset <= p.offset
        /\ p.offset < t.position.offset + Len(t.value)

C2_HeightClipping ==
    \A i \in DOMAIN draws : draws[i].row < height - 1

\* C3: a step of the token loop that leaves the tracked document line
\* below scroll_offset (the token is skipped) issues no print_char call,
\* also when the token is a Newline.
C3_SkippedTokensDrawNothing ==
    [][(pc = "tokens" /\ buffer_position'.line < scroll_offset)
            => draws' = draws]_vars

\* C4: the characters of a lexeme on document line L, with no soft wrap
\* before them, are painted on screen row L - scroll_offset, so that line
\* scroll_offset lies on row 0 with the first line number.
C4_ScrollOffsetLineOnTopRow ==
    \A i \in DOMAIN draws :
        (/\ draws[i].site \in {"char", "tab"}
         /\ \A j \in 1..(i - 1) : draws[j].site # "wrap")
        => draws[i].row = draws[i].bpos.line - scroll_offset

\* C5: a render() with scroll_offset >= the document's line count paints
\* no lexeme content and issues exactly one set_cursor call,
\* set_cursor(None).
C5_ScrolledPastEnd ==
    (Done /\ scroll_offset >= LineCount(tokens))
    => /\ \A i \in DOMAIN draws : draws[i].site \notin ContentSites
       /\ cursor_calls = << NoneCall >>

\* C6: a character reached with screen_position.offset = terminal.width()
\* is painted at (screen_position.line + 1, gutter_width), not at column
\* 0, by a single print_char call (no line number for the new row);
\* buffer_position.line is unchanged and buffer_position.offset grows by 1.
C6_SoftWrap ==
    [][(pc = "chars" /\ screen_position.offset = width) =>
          /\ Len(draws') = Len(draws) + 1
          /\ LET d == draws'[Len(draws')]
             IN  /\ d.col = gutter_width
                 /\ d.col # 0
                 /\ d.row = screen_position.line + 1
                 /\ d.ch = CurrentChar
                 /\ d.site # "line_number"
          /\ buffer_position'.line = buffer_position.line
          /\ buffer_position'.offset = buffer_position.offset + 1]_vars

C6_Witness ==
    /\ draws # << >>
    /\ LET d == draws[Len(draws)]
       IN  /\ d.site = "wrap"
           /\ d.row = d.bpos.line + 1
           /\ d.col = gutter_width
           /\ buffer_position = Pos(d.bpos.line, d.bpos.offset + 1)

\* C7: each iteration of print_lexeme's character loop (ordinary
\* character, tab or soft wrap) advances buffer_position.offset by exactly
\* 1 and leaves buffer_position.line alone, however many cells it painted.
C7_OffsetAdvancesByOne ==
    [][pc = "chars" =>
          buffer_position' = Pos(buffer_position.line,
                                 buffer_position.offset + 1)]_vars

C7_Witness ==
    /\ Len(draws) >= 2
    /\ LET d == draws[Len(draws)]
           e == draws[Len(draws) - 1]
       IN  /\ d.site = "tab"
           /\ e.site = "tab"
           /\ e.bpos = d.bpos
           /\ buffer_position = Pos(d.bpos.line, d.bpos.offset + 1)

\* The draws that start a character: an ordinary character, or the first
\* cell of a tab.
StartsChar(i) ==
    \/ draws[i].site = "char"
    \/ /\ draws[i].site = "tab"
       /\ \A j \in 1..(i - 1) : ~(draws[j].site = "tab" /\ draws[j].bpos = draws[i].bpos)

\* No tab and no soft wrap on the document line of draw i before draw i.
NoTabNoWrapBefore(i) ==
    \A j \in 1..(i - 1) :
        (draws[j].bpos.line = draws[i].bpos.line /\ draws[j].bpos # draws[i].bpos)
        => draws[j].site \notin {"tab", "wrap"}

\* C8: a character at document offset o on a line with no tab before it
\* and no soft wrap yet is painted at screen column o + gutter_width.
C8_ColumnInvariant ==
    \A i \in DOMAIN draws :
        (StartsChar(i) /\ NoTabNoWrapBefore(i))
        => draws[i].col = draws[i].bpos.offset + gutter_width

C8_Witness ==
    \E i \in DOMAIN draws :
        /\ draws[i].site = "char"
        /\ NoTabNoWrapBefore(i)
        /\ draws[i].bpos.offset >= 2
        /\ gutter_width = 5
        /\ draws[i].col = draws[i].bpos.offset + 5

\* C9: a painted character whose document position lies in the highlight
\* range has reverse style and default foreground; any other painted
\* character has normal style and the colour of its lexeme's scope; in the
\* ordinary, tab and soft wrap branches alike.
C9_HighlightStyle ==
    \A i \in DOMAIN draws :
        draws[i].site \in ContentSites =>
            LET p == draws[i].bpos
                inside == /\ highlight.set
                          /\ ~PosLess(p, highlight.start)
                          /\ PosLess(p, highlight.end)
                scope == TokenAt(p).scope
            IN  IF inside
                THEN draws[i].style = "RB_REVERSE" /\ draws[i].fg = "Default"
                ELSE /\ draws[i].style = "RB_NORMAL"
                     /\ draws[i].fg = IF scope = NoScope THEN "Default"
                                      ELSE ColorMap(scope)

C9_Witness ==
    /\ Done
    /\ \E i, j, k \in DOMAIN draws :
        /\ draws[i].site = "tab" /\ draws[i].style = "RB_REVERSE"
        /\ draws[j].site = "wrap" /\ draws[j].style = "RB_REVERSE"
        /\ draws[k].site = "char" /\ draws[k].fg = "Magenta"

\* C10: with no token stream render() completes, every print_char call it
\* made targets row 0 and its only set_cursor call is set_cursor(None).
C10_NoTokenStream ==
    ~tokenized =>
        /\ \A i \in DOMAIN draws : draws[i].row = 0
        /\ \A i \in DOMAIN cursor_calls : ~cursor_calls[i].some
        /\ pc \in {"render", "finish", "done"}
        /\ Done => cursor_calls = << NoneCall >>

C10_Witness ==
    /\ ~tokenized
    /\ Done
    /\ Len(tokens) > 0
    /\ cursor_calls = << NoneCall >>
    /\ \E i \in DOMAIN draws : draws[i].site # "line_number"

\* C11: render() runs to completion, and once a token step ends with the
\* document line >= scroll_offset and screen_position.line >=
\* terminal.height() - 1 the token loop is left at that token: from then
\* on no position is updated, no further token or character is processed
\* and no character is painted.
C11_TerminatesAndStopsAtCutoff ==
    /\ <>Done
    /\ [][(/\ pc = "tokens"
           /\ buffer_position'.line >= scroll_offset
           /\ screen_position'.line >= height - 1)
          => (pc' = "after_loop" /\ ti' = ti)]_vars
    /\ [][(pc = "after_loop" \/ pc = "finish") =>
            (/\ pc' \in {"finish", "done"}
             /\ ti' = ti
             /\ buffer_position' = buffer_position
             /\ screen_position' = screen_position
             /\ \A i \in (Len(draws) + 1)..Len(draws') :
                   draws'[i].site \notin ContentSites)]_vars

C11_Witness ==
    /\ Done
    /\ tokenized
    /\ ti < Len(tokens)
    /\ buffer_position.line >= scroll_offset
    /\ screen_position.line >= height - 1
    /\ \E i \in DOMAIN draws : draws[i].site \in ContentSites

\* C12: when a Lexeme token starts where the previous lexeme of the same
\* line ended, screen_position keeps the columns and rows that tabs and
\* soft wraps have added on that line.
C12_LexemeKeepsAccumulatedOffset ==
    [][(/\ pc = "tokens"
        /\ ti > 1
        /\ tokens[ti].type = "Lexeme"
        /\ tokens[ti - 1].type = "Lexeme"
        /\ buffer_position = tokens[ti].position)
       => screen_position' = screen_position]_vars

\* C13: a tab reached at screen_position.offset, with stop the next tab
\* stop of the content column, paints spaces with the alternate background
\* from screen_position.offset up to gutter_width + stop on the current row
\* and leaves screen_position.offset at gutter_width + stop, at any screen
\* column.
C13_TabFill ==
    [][(pc = "chars" /\ CurrentChar = TAB) =>
          LET content_col == screen_position.offset - gutter_width
              stop == (content_col \div TAB_WIDTH + 1) * TAB_WIDTH
              n == gutter_width + stop - screen_position.offset
          IN  /\ Len(draws') = Len(draws) + n
              /\ \A k \in 1..n :
                    LET d == draws'[Len(draws) + k]
                    IN  /\ d.col = screen_position.offset + k - 1
                        /\ d.row = screen_position.line
                        /\ d.ch = " "
                        /\ d.bg = AltBackground
              /\ screen_position'.offset = gutter_width + stop]_vars

\* C14: every call of draw_line_number returns gutter_width, the first
\* call (number scroll_offset + 1) and the calls after a Newline alike.
C14_LineNumberReturnsGutterWidth ==
    [][(pc = "render" \/ (pc = "tokens" /\ tokens[ti].type = "Newline"))
       => screen_position'.offset = gutter_width]_vars

\* The is_cursor_line argument of the draw_line_number call that made
\* line number draw d: the first call paints row 0, the others follow a
\* Newline.
IsCursorLineNumber(d) ==
    IF d.row = 0 THEN cursor.line = scroll_offset
    ELSE d.bpos.line = cursor.line

\* C15: a line number that fits its width is painted with the alternate
\* background on columns 0..width-1; the two separator columns have the
\* default background on a non-cursor line and the alternate background on
\* the cursor line; the foreground is default and the weight is bold
\* exactly on the cursor line.
C15_LineNumberColours ==
    \A i \in DOMAIN draws :
        (/\ draws[i].site = "line_number"
         /\ Len(to_string(scroll_offset + 1)) <= line_number_width)
        => /\ draws[i].fg = "Default"
           /\ (draws[i].style = "RB_BOLD") = IsCursorLineNumber(draws[i])
           /\ draws[i].style \in {"RB_BOLD", "RB_NORMAL"}
           /\ draws[i].bg = IF draws[i].col < line_number_width
                               \/ IsCursorLineNumber(draws[i])
                            THEN AltBackground ELSE "Default"

\* C16: the current-line fill is painted on the row whose line number was
\* drawn bold (soft-wrapped rows aside), for every scroll_offset and also
\* when no token was visible.
C16_FillOnBoldRow ==
    \A i \in DOMAIN draws :
        (/\ draws[i].site = "line_highlight"
         /\ \A j \in 1..(i - 1) : draws[j].site # "wrap")
        => \E j \in 1..(i - 1) :
              /\ draws[j].site = "line_number"
              /\ draws[j].row = draws[i].row
              /\ draws[j].style = "RB_BOLD"

\* C17: the length guide is one cell at column gutter_width + 80 of the
\* current row, off the cursor's line, and only when no content cell of
\* that row was painted at or beyond that column.
C17_LengthGuide ==
    \A i \in DOMAIN draws :
        draws[i].site = "length_guide" =>
            /\ draws[i].col = gutter_width + LINE_LENGTH_GUIDE_OFFSET
            /\ draws[i].bpos.line # cursor.line
            /\ \A j \in 1..(i - 1) :
                  (draws[j].site \in ContentSites /\ draws[j].row = draws[i].row)
                  => draws[j].col < gutter_width + LINE_LENGTH_GUIDE_OFFSET

\* C18: every print_char call targets a column < terminal.width().
C18_ColumnsInsideGrid ==
    \A i \in DOMAIN draws : draws[i].col < width

\* C19: when the character at the cursor's document position was painted,
\* the last set_cursor call of the frame is Some(p) with p the cell where
\* that character was painted (the first cell of a tab's fill).
C19_CursorOnPaintedCell ==
    Done =>
        \A i \in DOMAIN draws :
            (/\ draws[i].site \in ContentSites
             /\ draws[i].bpos = cursor
             /\ \A j \in 1..(i - 1) : draws[j].bpos # cursor
                                      \/ draws[j].site \notin ContentSites)
            => /\ cursor_calls # << >>
               /\ cursor_calls[Len(cursor_calls)].some
               /\ cursor_calls[Len(cursor_calls)].pos
                     = Pos(draws[i].row, draws[i].col)

\* C20: a screen row receives content characters of at most one document
\* line.
C20_OneLinePerRow ==
    \A i, j \in DOMAIN draws :
        (/\ draws[i].site \in ContentSites
         /\ draws[j].site \in ContentSites
         /\ draws[i].row = draws[j].row)
        => draws[i].bpos.line = draws[j].bpos.line
====
